---- MODULE Spec2Model ----
(***************************************************************************)
(* A model of the scripts of xnat_proxy_site:                              *)
(*   - burn_text_to_dicom.py: burn_text_into_dicom and process_directory   *)
(*   - the browser-driving and archive-querying test scripts               *)
(* One run of the model is one run of one program (variable prog).         *)
(***************************************************************************)
EXTENDS Integers, Sequences, FiniteSets, TLC

(***************************************************************************)
(* Bounds of the model.                                                    *)
(***************************************************************************)
\* period of the sample pattern that fills a pixel buffer
PatLen == 2
\* number of *.dcm files a directory may hold
MaxDcm == 2
\* number of other files a directory may hold
MaxOther == 1

(***************************************************************************)
(* Generic helpers.                                                        *)
(***************************************************************************)
RECURSIVE Prod(_)
Prod(s) == IF s = <<>> THEN 1 ELSE Head(s) * Prod(Tail(s))

SetMax(S) == CHOOSE x \in S : \A y \in S : y <= x
SetMin(S) == CHOOSE x \in S : \A y \in S : x <= y
Range(s) == {s[i] : i \in DOMAIN s}
Abs(x) == IF x < 0 THEN -x ELSE x

\* division rounding toward zero, as a float-to-integer conversion truncates
TruncDiv(n, d) ==
    LET q == Abs(n) \div Abs(d)
    IN IF (n < 0) = (d < 0) THEN q ELSE -q

\* a printed line: what it says, about which file (a path, a record) and
\* with which numbers
Line(k, a, n) == [k |-> k, a |-> a, n |-> n]

(***************************************************************************)
(* Pixel buffers.  A buffer has a dtype (from the header's BitsAllocated   *)
(* and PixelRepresentation), a shape, and its samples in row-major order.  *)
(***************************************************************************)
DTypes == {"uint8", "uint16", "int16"}
Width(dtype) == IF dtype = "uint8" THEN 8 ELSE 16
IsSigned(dtype) == dtype = "int16"

\* numpy integer arithmetic keeps the operands' width and wraps around
Wrap(x, dtype) ==
    LET m == 2 ^ Width(dtype)
        r == x % m
    IN IF IsSigned(dtype) /\ r >= m \div 2 THEN r - m ELSE r

\* sample values used to fill the buffers of the model, per dtype
Samples(dtype) ==
    CASE dtype = "uint8" -> {0, 200}
      [] dtype = "uint16" -> {7, 300, 20000}
      [] dtype = "int16" -> {-20000, -1, 255, 20000}

\* the buffer of n samples that repeats the pattern pat
Fill(pat, n) == [i \in 1..n |-> pat[((i - 1) % Len(pat)) + 1]]

\* pixel-array shapes: 2-D, 2-D smaller than the text offset, colour,
\* multi-frame grayscale, 3-D with a last axis of 2, 1-D, multi-frame colour
Shapes ==
    { <<11, 12>>, <<2, 3>>, <<2, 3, 3>>, <<2, 4, 4>>, <<2, 2, 2>>,
      <<4>>, <<1, 2, 2, 3>> }
\* a colour image large enough to show the text
ColourShape == <<11, 11, 3>>

(***************************************************************************)
(* File contents.  tag "dicom" is a readable DICOM dataset; "garbage" is   *)
(* not a DICOM file; "truncated" is what an interrupted write leaves.      *)
(* nbytes is the byte length of the PixelData element.                     *)
(***************************************************************************)
Dataset(dtype, shape, data) ==
    [tag |-> "dicom", hasPixel |-> TRUE, decodable |-> TRUE, dtype |-> dtype,
     shape |-> shape, data |-> data,
     nbytes |-> Len(data) * (Width(dtype) \div 8)]
NoPixelDataset ==
    [tag |-> "dicom", hasPixel |-> FALSE, decodable |-> FALSE,
     dtype |-> "uint8", shape |-> <<>>, data |-> <<>>, nbytes |-> 0]
\* compressed pixel data for which no decoder is installed
UndecodableDataset ==
    [tag |-> "dicom", hasPixel |-> TRUE, decodable |-> FALSE,
     dtype |-> "uint8", shape |-> <<2, 3>>, data |-> <<>>, nbytes |-> 4]
Garbage ==
    [tag |-> "garbage", hasPixel |-> FALSE, decodable |-> FALSE,
     dtype |-> "uint8", shape |-> <<>>, data |-> <<>>, nbytes |-> 0]
Truncated ==
    [tag |-> "truncated", hasPixel |-> FALSE, decodable |-> FALSE,
     dtype |-> "uint8", shape |-> <<>>, data |-> <<>>, nbytes |-> 0]
Absent ==
    [tag |-> "absent", hasPixel |-> FALSE, decodable |-> FALSE,
     dtype |-> "uint8", shape |-> <<>>, data |-> <<>>, nbytes |-> 0]

PixelDatasets(shapes) ==
    { Dataset(dt, sh, Fill(pat, Prod(sh))) :
        <<dt, sh, pat>> \in
          { t \in DTypes \X shapes \X UNION {[1..PatLen -> Samples(d)] : d \in DTypes} :
              Range(t[3]) \subseteq Samples(t[1]) } }
ColourDatasets ==
    { Dataset("uint8", ColourShape, Fill(pat, Prod(ColourShape))) :
        pat \in [1..2 -> Samples("uint8")] }
OtherContents == {NoPixelDataset, UndecodableDataset, Garbage}

(***************************************************************************)
(* Paths.  A path is a record (number, extension); NoneVal is Python's     *)
(* None and EmptyPath the empty string, both falsy.                        *)
(***************************************************************************)
File(n, e) == [n |-> n, e |-> e]
NoneVal == File(0, "<None>")
EmptyPath == File(0, "")
OutPath == File(0, "out.dcm")
DcmFiles == {File(i, "dcm") : i \in 1..MaxDcm}
OtherFiles == {File(i, "txt") : i \in 1..MaxOther}
Paths == DcmFiles \cup OtherFiles \cup {OutPath}
\* Python truthiness of a path argument (line 80: `if output_path`)
Truthy(p) == p # NoneVal /\ p # EmptyPath

Msg(k, a) == Line(k, a, <<>>)
MsgN(k, n) == Line(k, NoneVal, n)

(***************************************************************************)
(* burn_text_into_dicom, lines 36-42: normalisation to 8 bits.             *)
(***************************************************************************)
\* a float outside [0, 255] converted to uint8 is undefined in C: builds
\* either keep the low 8 bits of the integer part or saturate
CastModes == {"wrap", "saturate"}
CastFloat(t, cast) ==
    IF 0 <= t /\ t <= 255 THEN t
    ELSE IF cast = "wrap" THEN t % 256
    ELSE IF t < 0 THEN 0 ELSE 255
\* 0/0 is NaN, and NaN converts to 0 on the builds above
NaNCast(cast) == 0

\* lines 39-40: ((a - min) / (max - min) * 255).astype(uint8); the two
\* subtractions are done in the buffer's dtype, the rest in floating point
Rescale(data, dtype, cast) ==
    LET mn == SetMin(Range(data))
        mx == SetMax(Range(data))
        span == Wrap(mx - mn, dtype)
    IN [i \in DOMAIN data |->
          IF span = 0 THEN NaNCast(cast)
          ELSE CastFloat(TruncDiv(Wrap(data[i] - mn, dtype) * 255, span), cast)]

\* (mutant: values clipped to [0, 255] instead of truncated)
AsUint8_Clipped(data) ==
    [i \in DOMAIN data |->
       IF data[i] < 0 THEN 0 ELSE IF data[i] > 255 THEN 255 ELSE data[i]]
\* line 42: astype(uint8) of an integer buffer keeps the low 8 bits
AsUint8(data) == [i \in DOMAIN data |-> data[i] % 256]

\* line 37
NeedsRescale(data) == SetMax(Range(data)) > 255

Normalize(data, dtype, cast) ==
    IF NeedsRescale(data) THEN Rescale(data, dtype, cast) ELSE AsUint8(data)

(***************************************************************************)
(* burn_text_into_dicom, lines 44-71: the image and the text.              *)
(***************************************************************************)
\* line 68
Position == <<10, 10>>
\* line 71, fill=255: the ink per band. In mode RGB the integer 255 is the
\* colour (255, 0, 0)
Ink(mode) == IF mode = "L" THEN <<255>> ELSE <<255, 0, 0>>
Bands(mode) == IF mode = "L" THEN 1 ELSE 3

\* pixels (row, column), from 0, at or beyond the text position: the glyphs
\* are laid out to the right of and below it, clipped to the image
OverlayRegion(h, w) == (Position[2]..(h - 1)) \X (Position[1]..(w - 1))

\* which pixels of the region the glyphs cover depends on the font and the
\* text: nothing, all of it, or one of two interleaved halves
MaskKinds == {"none", "all", "even", "odd"}
Painted(region, kind, text) ==
    IF text = "" \/ kind = "none" THEN {}
    ELSE IF kind = "all" THEN region
    ELSE { rc \in region : ((rc[1] + rc[2]) % 2 = 0) = (kind = "even") }

\* lines 45-53: the image built from the normalised buffer.
\* Image.fromarray(a, mode='RGB') takes height and width from the first two
\* axes and reads height*width*3 bytes from the start of the buffer; it
\* raises when the buffer is shorter
ImageOf(shape, px) ==
    IF Len(shape) = 2
      THEN [kind |-> "L", h |-> shape[1], w |-> shape[2], px |-> px]
    ELSE IF Len(shape) = 3
      THEN IF Len(px) < shape[1] * shape[2] * 3
             THEN [kind |-> "error", h |-> 0, w |-> 0, px |-> <<>>]
             ELSE [kind |-> "RGB", h |-> shape[1], w |-> shape[2],
                   px |-> SubSeq(px, 1, shape[1] * shape[2] * 3)]
    ELSE [kind |-> "unsupported", h |-> 0, w |-> 0, px |-> <<>>]

\* lines 59-65: the font; the system font may be missing, and the default
\* font has a size of its own
DefaultFont == [kind |-> "default", size |-> 0]
FontFor(h, fontAvail) ==
    IF fontAvail
      THEN [kind |-> "truetype",
            size |-> IF h \div 20 > 20 THEN h \div 20 ELSE 20]
      ELSE DefaultFont

\* line 71: draw.text(position, text, fill=255, font=font)
DrawText(img, painted) ==
    LET b == Bands(img.kind)
    IN [img EXCEPT !.px =
          [i \in DOMAIN img.px |->
             LET pix == (i - 1) \div b
                 rc == <<pix \div img.w, pix % img.w>>
             IN IF rc \in painted THEN Ink(img.kind)[((i - 1) % b) + 1]
                ELSE img.px[i]]]

(***************************************************************************)
(* burn_text_into_dicom(dicom_path, text, output_path) on the disk d.      *)
(* env holds what the call does not decide: whether the system font loads, *)
(* which pixels the glyphs cover, how the build converts out-of-range      *)
(* floats, and whether save_as fails (before it opens the file, or after   *)
(* it has opened, and so emptied, it).                                     *)
(* The result: ret ("True", "False", or "raise" for an exception leaving   *)
(* the function), the lines printed, the writes made, the disk afterwards, *)
(* and the intermediate values norm (after line 42), img (after line 71)   *)
(* and font.                                                               *)
(***************************************************************************)
SaveFaults == {"none", "open", "write"}
Envs ==
    [fontAvail : BOOLEAN, mask : MaskKinds, cast : CastModes, save : SaveFaults]

NoImage == [kind |-> "none", h |-> 0, w |-> 0, px |-> <<>>]
Outcome(ret, msgs, writes, d, norm, img, font) ==
    [ret |-> ret, msgs |-> msgs, writes |-> writes, disk |-> d,
     norm |-> norm, img |-> img, font |-> font]

\* line 25: pydicom.dcmread raises on a missing file or one that is not DICOM
Readable(c) == c.tag = "dicom"
\* (mutant: the check of line 28 left out)
HasPixelData_Unchecked(ds) == TRUE
\* line 28
HasPixelData(ds) == ds.hasPixel
\* line 33: ds.pixel_array raises when there is no PixelData element, when no
\* decoder handles it, or when it is shorter than the header says
Decodes(ds) ==
    /\ ds.hasPixel
    /\ ds.decodable
    /\ ds.nbytes >= Prod(ds.shape) * (Width(ds.dtype) \div 8)

\* (mutant: the output path ignored)
OutputTarget_Input(dicom_path, output_path) == dicom_path
\* line 80
OutputTarget(dicom_path, output_path) ==
    IF Truthy(output_path) THEN output_path ELSE dicom_path

\* lines 55-84: draw, put the buffer back, save
DrawAndSave(dicom_path, text, output_path, d, env, ds, norm, img0) ==
    LET font == FontFor(img0.h, env.fontAvail)
        painted == Painted(OverlayRegion(img0.h, img0.w), env.mask, text)
        img == DrawText(img0, painted)
        \* lines 74-77: only PixelData is replaced; the header is kept
        ds2 == [ds EXCEPT !.data = img.px, !.nbytes = Len(img.px)]
        output == OutputTarget(dicom_path, output_path)
    IN CASE env.save = "none" ->
              Outcome("True", <<Msg("burned", dicom_path)>>,
                      <<[path |-> output, content |-> ds2]>>,
                      [d EXCEPT ![output] = ds2], norm, img, font)
         [] env.save = "open" ->
              Outcome("raise", <<>>, <<>>, d, norm, img, font)
         [] env.save = "write" ->
              Outcome("raise", <<>>,
                      <<[path |-> output, content |-> Truncated]>>,
                      [d EXCEPT ![output] = Truncated], norm, img, font)

\* lines 24-84
Burn(dicom_path, text, output_path, d, env) ==
    LET ds == d[dicom_path]
    IN IF ~Readable(ds)
         THEN Outcome("raise", <<>>, <<>>, d, <<>>, NoImage, DefaultFont)
       ELSE IF ~HasPixelData(ds)
         THEN Outcome("False", <<Msg("skip_no_pixel_data", dicom_path)>>,
                      <<>>, d, <<>>, NoImage, DefaultFont)
       ELSE IF ~Decodes(ds)
         THEN Outcome("raise", <<>>, <<>>, d, <<>>, NoImage, DefaultFont)
       ELSE
         LET norm == Normalize(ds.data, ds.dtype, env.cast)
             img0 == ImageOf(ds.shape, norm)
         IN CASE img0.kind = "unsupported" ->
                   Outcome("False", <<Msg("skip_unsupported_shape", dicom_path)>>,
                           <<>>, d, norm, NoImage, DefaultFont)
              [] img0.kind = "error" ->
                   Outcome("raise", <<>>, <<>>, d, norm, NoImage, DefaultFont)
              [] OTHER ->
                   DrawAndSave(dicom_path, text, output_path, d, env, ds,
                               norm, img0)

(***************************************************************************)
(* State.                                                                  *)
(***************************************************************************)
VARIABLES
    prog,           \* which program this run is
    pc,             \* where the program is
    disk,           \* the files: path -> content
    disk0,          \* the files when the program started
    dirExists,      \* whether the directory given to process_directory exists
    args,           \* the arguments of the call
    dicom_files,    \* process_directory: the list the glob returned
    idx,            \* process_directory: files handled so far
    success_count,  \* process_directory: line 112
    calls,          \* the calls of burn_text_into_dicom made: path and outcome
    out,            \* the lines printed
    writes,         \* the file writes made
    last,           \* the outcome of the latest burn_text_into_dicom
    sys_argv,       \* the command line, the program's name first
    directory,      \* the directory process_directory is called with
    nCalls,         \* how many times the main block called process_directory
    banner,         \* the directory and the text the main block printed
    script,         \* a test script: which one
    phase,          \* "pre" (before the try), "try", "finally", "done"
    spc,            \* the step of the phase the script is at
    pending,        \* what is leaving the script: "none", "exception", "exit1"
    driver,         \* the browser driver: "none", "open", "quit"
    quits,          \* how many times driver.quit() was executed
    session,        \* the requests.Session: "none", "open", "closed"
    nInputs,        \* how many <input> elements the page had
    iter,           \* iterations of the monitoring loop made
    events,         \* the steps executed, in order
    server,         \* what the archive server answers
    reqs,           \* the requests sent to the archive server, in order
    loop,           \* the search: which loop sends the next request
    cur,            \* the search: the project, experiment, scan it is at
    scans_found,    \* find_small_scan: line 32
    selected,       \* test_viewer_full: project_id, experiment_id, scan_id
    printed,        \* find_small_scan: the scans listed, in order
    recommended,    \* find_small_scan: the scan recommended, if any
    page_keys,      \* test_viewer_headless: the viewer keywords in the page text
    canvases,       \* test_viewer_headless: how many <canvas> elements were found
    verdicts        \* test_viewer_headless: the final verdicts printed

mainVars == <<sys_argv, directory, nCalls, banner>>
burnVars ==
    <<pc, disk, disk0, dirExists, args, dicom_files, idx, success_count,
      calls, out, writes, last, mainVars>>
searchVars ==
    <<server, reqs, loop, cur, scans_found, selected, printed, recommended>>
pageVars == <<page_keys, canvases, verdicts>>
scriptVars ==
    <<script, phase, spc, pending, driver, quits, session, nInputs, iter, events,
      searchVars, pageVars>>
vars == <<prog, burnVars, scriptVars>>

\* an identifier a listing did not give (None, or the empty string)
NoId == << >>
NoServer ==
    [nProj |-> 0, projStatus |-> 200, exps |-> << >>, scans |-> << >>,
     files |-> << >>]
\* nothing read from the page, nothing printed about it
NoPage == page_keys = {} /\ canvases = 0 /\ verdicts = << >>
\* the search variables before the search, and in a script without one
NoSearch ==
    /\ reqs = << >> /\ loop = "none" /\ cur = <<0, 0, 0>>
    /\ scans_found = << >>
    /\ selected = [project_id |-> NoId, experiment_id |-> NoId, scan_id |-> NoId]
    /\ printed = << >> /\ recommended = << >>

\* the values of a script's variables in a run of the pixel-burning tool
NoScript ==
    /\ server = NoServer /\ NoSearch /\ NoPage
    /\ script = "none" /\ phase = "done" /\ spc = 0 /\ pending = "none"
    /\ driver = "none" /\ quits = 0 /\ session = "none" /\ nInputs = 0
    /\ iter = 0 /\ events = <<>>

\* the main block's variables when a function is called directly
NoMain ==
    /\ sys_argv = <<>> /\ directory = "/data" /\ nCalls = 0 /\ banner = <<>>

NoOutcome == Outcome("none", <<>>, <<>>, <<>>, <<>>, NoImage, DefaultFont)
Texts == {"", "PHI"}

\* Whether the call reaches the drawing code (line 55), and the choices of
\* env that can make a difference to the call: the others are fixed, so that
\* the same outcome is not computed many times over
ReachesDraw(ds) ==
    /\ Readable(ds) /\ HasPixelData(ds) /\ Decodes(ds)
    /\ Len(ds.shape) \in {2, 3}
    /\ ImageOf(ds.shape, ds.data).kind \in {"L", "RGB"}
EnvsFor(ds, text) ==
    LET draws == ReachesDraw(ds)
        paints == draws /\ text # ""
                    /\ OverlayRegion(ds.shape[1], ds.shape[2]) # {}
        rescales == Readable(ds) /\ Decodes(ds) /\ NeedsRescale(ds.data)
    IN [fontAvail : IF draws THEN BOOLEAN ELSE {TRUE},
        mask : IF paints THEN MaskKinds ELSE {"none"},
        cast : IF rescales THEN CastModes ELSE {"wrap"},
        save : IF draws THEN SaveFaults ELSE {"none"}]

(***************************************************************************)
(* One call of burn_text_into_dicom on a file.                             *)
(***************************************************************************)
InPath == File(1, "dcm")
OutputPaths == {NoneVal, EmptyPath, InPath, OutPath}

InitBurn ==
    /\ prog = "burn"
    /\ pc = "start"
    /\ \E c \in PixelDatasets(Shapes) \cup ColourDatasets \cup OtherContents :
          disk = [p \in Paths |-> IF p = InPath THEN c ELSE Absent]
    /\ disk0 = disk
    /\ dirExists = TRUE
    /\ \E t \in Texts, o \in OutputPaths :
          args = [dicom_path |-> InPath, text |-> t, output_path |-> o]
    /\ dicom_files = <<>>
    /\ idx = 0
    /\ success_count = 0
    /\ calls = <<>>
    /\ out = <<>>
    /\ writes = <<>>
    /\ last = NoOutcome
    /\ NoMain
    /\ NoScript

CallBurn ==
    /\ prog = "burn"
    /\ pc = "start"
    /\ \E env \in EnvsFor(disk[args.dicom_path], args.text) :
          LET r == Burn(args.dicom_path, args.text, args.output_path, disk, env)
          IN /\ last' = r
             /\ disk' = r.disk
             /\ out' = out \o r.msgs
             /\ writes' = writes \o r.writes
             /\ calls' = Append(calls, [path |-> args.dicom_path, ret |-> r.ret])
    /\ pc' = "done"
    /\ UNCHANGED <<prog, disk0, dirExists, args, dicom_files, idx, success_count,
                   mainVars, scriptVars>>

SpecBurn == InitBurn /\ [][CallBurn]_vars

(***************************************************************************)
(* process_directory(directory, text).                                     *)
(***************************************************************************)
\* what the files of a batch hold: a small grayscale image, multi-frame
\* grayscale, a 1-D buffer, no pixel data, undecodable pixel data, not DICOM
BatchContents ==
    { Dataset("uint8", <<2, 3>>, Fill(<<0, 200>>, 6)),
      Dataset("uint8", <<2, 4, 4>>, Fill(<<0, 200>>, 32)),
      Dataset("uint8", <<4>>, Fill(<<0, 200>>, 4)),
      NoPixelDataset, UndecodableDataset, Garbage }

\* (mutant: every file of the directory matched)
GlobDcm_All(d) == { p \in DcmFiles \cup OtherFiles : d[p].tag # "absent" }
\* line 102: directory.glob("*.dcm")
GlobDcm(d) == { p \in DcmFiles \cup OtherFiles : d[p].tag # "absent" /\ p.e = "dcm" }

\* the orders in which a glob may return a set of files
Orders(S) ==
    { s \in [1..Cardinality(S) -> S] : \A i, j \in DOMAIN s : i # j => s[i] # s[j] }

InitBatch ==
    /\ prog = "batch"
    /\ pc = "start"
    /\ dirExists \in BOOLEAN
    /\ disk \in [Paths -> BatchContents \cup {Absent}]
    /\ disk[OutPath] = Absent
    /\ \A p \in OtherFiles : disk[p] \in {Absent, Garbage}
    /\ ~dirExists => \A p \in Paths : disk[p] = Absent
    /\ disk0 = disk
    /\ \E t \in {"PHI"} : args = [dicom_path |-> NoneVal, text |-> t, output_path |-> NoneVal]
    /\ dicom_files = <<>>
    /\ idx = 0
    /\ success_count = 0
    /\ calls = <<>>
    /\ out = <<>>
    /\ writes = <<>>
    /\ last = NoOutcome
    /\ NoMain
    /\ NoScript

\* lines 95-110
ListDirectory ==
    /\ prog = "batch"
    /\ pc = "start"
    /\ IF ~dirExists
         THEN /\ out' = Append(out, MsgN("error_no_directory", <<>>))
              /\ pc' = "done"
              /\ UNCHANGED dicom_files
       ELSE \E fs \in Orders(GlobDcm(disk)) :
              /\ dicom_files' = fs
              /\ IF fs = <<>>
                   THEN /\ out' = Append(out, MsgN("no_dcm_files_found", <<>>))
                        /\ pc' = "done"
                   ELSE /\ out' = Append(out, MsgN("found", <<Len(fs)>>))
                        /\ pc' = "loop"
    /\ UNCHANGED <<prog, disk, disk0, dirExists, args, idx, success_count,
                   calls, writes, last, mainVars, scriptVars>>

\* (mutant: no try/except around the call, an exception ends the batch)
ProcessFile_Uncaught ==
    /\ prog = "batch"
    /\ pc = "loop"
    /\ idx < Len(dicom_files)
    /\ LET dcm_file == dicom_files[idx + 1]
       IN \E env \in EnvsFor(disk[dcm_file], args.text) :
            LET r == Burn(dcm_file, args.text, NoneVal, disk, env)
            IN /\ last' = r
               /\ disk' = r.disk
               /\ writes' = writes \o r.writes
               /\ calls' = Append(calls, [path |-> dcm_file, ret |-> r.ret])
               /\ success_count' =
                     IF r.ret = "True" THEN success_count + 1 ELSE success_count
               /\ out' = out \o r.msgs
               /\ pc' = IF r.ret = "raise" THEN "crashed" ELSE pc
    /\ idx' = idx + 1
    /\ UNCHANGED <<prog, disk0, dirExists, args, dicom_files, mainVars>>
    /\ UNCHANGED scriptVars

\* lines 113-118: one iteration of the loop
ProcessFile ==
    /\ prog = "batch"
    /\ pc = "loop"
    /\ idx < Len(dicom_files)
    /\ LET dcm_file == dicom_files[idx + 1]
       IN \E env \in EnvsFor(disk[dcm_file], args.text) :
            LET r == Burn(dcm_file, args.text, NoneVal, disk, env)
            IN /\ last' = r
               /\ disk' = r.disk
               /\ writes' = writes \o r.writes
               /\ calls' = Append(calls, [path |-> dcm_file, ret |-> r.ret])
               /\ success_count' =
                     IF r.ret = "True" THEN success_count + 1 ELSE success_count
               /\ out' = IF r.ret = "raise"
                           THEN Append(out \o r.msgs, Msg("error_processing", dcm_file))
                           ELSE out \o r.msgs
    /\ idx' = idx + 1
    /\ UNCHANGED <<prog, pc, disk0, dirExists, args, dicom_files, mainVars,
                   scriptVars>>

\* lines 120-121
Summary ==
    /\ prog = "batch"
    /\ pc = "loop"
    /\ idx = Len(dicom_files)
    /\ out' = Append(out, MsgN("summary", <<success_count, Len(dicom_files)>>))
    /\ pc' = "done"
    /\ UNCHANGED <<prog, disk, disk0, dirExists, args, dicom_files, idx,
                   success_count, calls, writes, last, mainVars, scriptVars>>

(***************************************************************************)
(* The main block, lines 124-142: the command line of the tool.            *)
(***************************************************************************)
\* lines 126-127
DefaultDir == "/Users/james/projects/data/pixel/8eec518c/4259db4/a65451f9"
DefaultText == "this is a text string"
\* the command lines tried: the program's name and up to three arguments
ProgName == "burn_text_to_dicom.py"
CommandLines ==
    { <<ProgName>>, <<ProgName, "/data">>, <<ProgName, "/data", "PHI">>,
      <<ProgName, "/data", "PHI", "more">> }

\* (mutant: the command line is not looked at)
ArgOr_Default(argv, i, default) == default
\* lines 130-133: if len(sys.argv) > i: value = sys.argv[i]; sys.argv[i]
\* is element i + 1 of the sequence
ArgOr(argv, i, default) == IF Len(argv) > i THEN argv[i + 1] ELSE default

InitMain ==
    /\ prog = "main"
    /\ pc = "main"
    /\ sys_argv \in CommandLines
    /\ directory = "" /\ nCalls = 0 /\ banner = <<>>
    /\ dirExists \in BOOLEAN
    /\ disk \in [Paths -> BatchContents \cup {Absent}]
    /\ disk[OutPath] = Absent
    /\ \A p \in OtherFiles : disk[p] \in {Absent, Garbage}
    /\ ~dirExists => \A p \in Paths : disk[p] = Absent
    /\ disk0 = disk
    /\ args = [dicom_path |-> NoneVal, text |-> "", output_path |-> NoneVal]
    /\ dicom_files = <<>>
    /\ idx = 0
    /\ success_count = 0
    /\ calls = <<>>
    /\ out = <<>>
    /\ writes = <<>>
    /\ last = NoOutcome
    /\ NoScript

\* lines 126-142: the defaults, the overrides, the banner and the call of
\* process_directory(test_dir, text_to_burn), which then runs
Main ==
    /\ prog = "main"
    /\ pc = "main"
    /\ LET test_dir == ArgOr(sys_argv, 1, DefaultDir)
           text_to_burn == ArgOr(sys_argv, 2, DefaultText)
       IN /\ banner' = <<test_dir, text_to_burn>>
          /\ directory' = test_dir
          /\ args' = [args EXCEPT !.text = text_to_burn]
    /\ nCalls' = nCalls + 1
    /\ prog' = "batch"
    /\ pc' = "start"
    /\ UNCHANGED <<disk, disk0, dirExists, dicom_files, idx, success_count,
                   calls, out, writes, last, sys_argv, scriptVars>>

(***************************************************************************)
(* The test scripts.  A script is a list of steps run before its try       *)
(* block (PreSteps), the steps of the try block (TrySteps) and the finally *)
(* block, which is driver.quit().  A step: op, what it does; arg, on       *)
(* what; mode, what a failed check does; to, the step a skip goes to (for  *)
(* the monitoring loop: its iteration count); catch, the step that follows *)
(* an exception caught by an inner try/except (0: none catches it).        *)
(***************************************************************************)
Scripts ==
    { "test_viewer_headless", "test_viewer_robust", "test_viewer_visible",
      "test_viewer_ui", "test_viewer", "test_console_logs",
      "test_detailed_logs", "test_specific_scan", "test_viewer_full",
      "find_small_scan" }

St(op, arg) == [op |-> op, arg |-> arg, mode |-> "", to |-> 0, catch |-> 0]
StMode(op, arg, mode) == [St(op, arg) EXCEPT !.mode = mode]
StTo(op, arg, mode, to) == [St(op, arg) EXCEPT !.mode = mode, !.to = to]
StIn(op, arg, mode, to, catch) ==
    [op |-> op, arg |-> arg, mode |-> mode, to |-> to, catch |-> catch]

PreSteps(sc) ==
    CASE sc = "test_specific_scan" ->
           << St("session", ""), StMode("api_login", "", "exit"),
              St("driver", "") >>
      [] sc = "test_viewer_full" ->
           << St("session", ""), StMode("api_login", "", "return"),
              StMode("api", "projects", "return"),
              StMode("search", "", "return"), St("driver", "") >>
      [] sc = "find_small_scan" ->
           << St("session", ""), StMode("api_login", "", "exit"),
              St("api", "projects"), St("search", ""), St("report", "") >>
      [] OTHER -> << St("driver", "") >>

\* (mutant: the viewer is loaded before the session is injected)
ApiViewerSteps_ViewerFirst ==
    << St("get", "app"), St("get", "viewer"), St("inject", "cookie"),
       St("inject", "JSESSIONID"), St("inject", "xnatServerUrl"),
       St("screenshot", ""), St("get_log", ""), St("read_body", ""),
       St("verdict", "") >>
\* test_specific_scan lines 53-150, test_viewer_full lines 138-198: the
\* origin, add_cookie and the two localStorage.setItem, the viewer, the
\* screenshot, the console log, the page text, the verdict
ApiViewerSteps ==
    << St("get", "app"), St("inject", "cookie"), St("inject", "JSESSIONID"),
       St("inject", "xnatServerUrl"), St("get", "viewer"),
       St("screenshot", ""), St("get_log", ""), St("read_body", ""),
       St("verdict", "") >>

TrySteps(sc) ==
    CASE sc = "test_viewer_headless" ->
           << St("get", "app"), StMode("inputs", "", "exit"), St("fill", ""),
              St("click", ""), StMode("login_check", "", "exit"),
              St("get", "viewer"), St("screenshot", ""),
              StMode("read_body", "", "keywords"), St("get_log", ""),
              StMode("canvases", "", "count"),
              StMode("verdict", "", "keywords_canvases") >>
      [] sc = "test_viewer_robust" ->
           << St("get", "app"), St("inputs", ""), St("fill", ""),
              St("click", ""), StMode("login_check", "", "exit"),
              St("get", "viewer"), StTo("monitor", "", "robust", 6),
              St("screenshot", ""), St("get_log", ""), St("canvases", ""),
              St("read_body", ""), St("verdict", "") >>
      [] sc = "test_viewer_visible" ->
           << St("get", "app"), St("inputs", ""), St("fill", ""),
              St("click", ""), StMode("login_check", "", "input_exit"),
              St("get", "viewer"), StTo("monitor", "", "visible", 18),
              St("screenshot", ""), St("get_log", ""), St("canvases", ""),
              St("verdict", ""), StIn("sleep", "", "", 0, 13) >>
      [] sc = "test_viewer_ui" ->
           << St("get", "app"), StTo("inputs", "", "skip", 6), St("fill", ""),
              St("click", ""), StMode("login_check", "", "print"),
              St("get", "viewer"), St("screenshot", ""), St("get_log", ""),
              St("read_body", ""), St("verdict", ""), St("sleep", "") >>
      [] sc = "test_viewer" ->
           << St("get", "app"), St("get_log", ""), St("screenshot", ""),
              StIn("inputs", "", "skip", 11, 11), StIn("fill", "", "", 0, 11),
              StIn("click", "", "", 0, 11),
              StIn("login_check", "", "branch", 11, 11),
              StIn("get", "projects", "", 0, 11),
              StIn("screenshot", "", "", 0, 11),
              StIn("click", "project", "", 0, 11),
              St("get_log", "") >>
      [] sc \in {"test_console_logs", "test_detailed_logs"} ->
           << St("get", "app"), St("inputs", ""), St("fill", ""),
              St("click", ""), St("get", "viewer"), St("get_log", "") >>
      [] sc \in {"test_specific_scan", "test_viewer_full"} -> ApiViewerSteps
      [] OTHER -> << >>

\* the number of <input> elements the login form is expected to have
ExpectedInputs == 3
InputCounts == 0..ExpectedInputs

\* what the monitoring loops see on the page
PageObs == {"signin", "canvases", "loading", "ready", "waiting", "other"}
\* test_viewer_robust lines 73-81, test_viewer_visible lines 75-86
Breaks(mode, obs) ==
    IF mode = "robust" THEN obs \in {"signin", "ready"}
    ELSE obs \in {"signin", "canvases", "ready"}

(***************************************************************************)
(* The archive server as the scripts see it: the answer to each listing    *)
(* request.  Projects, experiments and scans are named by their place in   *)
(* the listings: project p, experiment <<p, e>>, scan <<p, e, s>>.  The     *)
(* experiment listings are given by a pattern repeated over the projects,  *)
(* the scan and file listings likewise.                                    *)
(***************************************************************************)
\* a listing: its status, the number of items, and which item (0: none)
\* comes without an 'ID'
Listing(status, n, noId) == [status |-> status, n |-> n, noId |-> noId]
\* a file listing: its status and the files' names
FName(stem, ext) == [stem |-> stem, ext |-> ext]
FileListing(status, names) == [status |-> status, names |-> names]
Cyc(pattern, k) == pattern[((k - 1) % Len(pattern)) + 1]

ExpPatterns ==
    { << Listing(200, 4, 0) >>,
      << Listing(500, 4, 0), Listing(200, 4, 0) >>,
      << Listing(200, 0, 0), Listing(200, 2, 1), Listing(200, 2, 0) >> }
ScanPatterns ==
    { << Listing(200, 1, 0) >>,
      << Listing(500, 2, 0), Listing(200, 2, 0) >>,
      << Listing(200, 0, 0), Listing(200, 2, 1) >> }
FilePatterns ==
    { << FileListing(200, << FName("1", "dcm"), FName("2", "dcm") >>) >>,
      << FileListing(404, << FName("1", "dcm") >>),
         FileListing(200, << FName("1", "dcm"), FName("2", "DCM"), FName("notes", "txt") >>),
         FileListing(200, << FName("1", "DCM") >>) >>,
      << FileListing(200, << FName("1", "dcm"), FName("2", "dcm"), FName("3", "dcm") >>),
         FileListing(200, << FName("1", "dcm") >>),
         FileListing(200, << FName("notes", "txt"), FName("", "") >>),
         FileListing(200, << >>) >> }
ProjectCounts == {0, 1, 3, 16}
Servers ==
    [nProj : ProjectCounts, projStatus : {200}, exps : ExpPatterns,
     scans : ScanPatterns, files : FilePatterns]
    \cup [nProj : {3}, projStatus : {500}, exps : {<< Listing(200, 4, 0) >>},
          scans : {<< Listing(200, 1, 0) >>},
          files : {<< FileListing(200, << FName("1", "dcm") >>) >>}]

ExpListing(sv, p) == Cyc(sv.exps, p)
ScanListing(sv, p, e) == Cyc(sv.scans, p + e - 1)
FilesOf(sv, p, e, s) == Cyc(sv.files, p + e + s - 2)
\* proj.get('ID'), exp.get('ID'), scan.get('ID')
ProjId(sv, p) == <<p>>
ExpId(sv, p, e) == IF ExpListing(sv, p).noId = e THEN NoId ELSE <<p, e>>
ScanId(sv, p, e, s) == IF ScanListing(sv, p, e).noId = s THEN NoId ELSE <<p, e, s>>

\* a request sent: which listing, of what, and the status of the answer
\* (0: no answer, the request raised)
Req(kind, at, status) == [kind |-> kind, at |-> at, status |-> status]
LoginStatuses == {200, 401}

\* (mutant: the status of the login is not looked at)
LoginOk_Any(status) == TRUE
\* find_small_scan line 18, test_specific_scan line 32, test_viewer_full
\* line 39
LoginOk(status) == status = 200

\* (mutant: no limit on the projects examined)
ProjectLimit_Unbounded(sc) == 1000
\* find_small_scan line 34: projects[:15]; test_viewer_full line 75:
\* projects[:10]
ProjectLimit(sc) == IF sc = "find_small_scan" THEN 15 ELSE 10
\* find_small_scan line 46, test_viewer_full line 93: experiments[:3]
ExpLimit == 3
\* find_small_scan line 85: scans_found[:10]
PrintLimit == 10
Min(a, b) == IF a < b THEN a ELSE b

\* the projects the script has after the project listing: a listing that
\* was refused has no 'ResultSet'
ProjectsSeen(sv) == IF sv.projStatus = 200 THEN sv.nProj ELSE 0

\* find_small_scan line 68: f.get('Name', '').lower().endswith('.dcm')
LowerExt(ext) == IF ext \in {"DCM", "Dcm"} THEN "dcm" ELSE ext
IsDicomName(f) == LowerExt(f.ext) = "dcm"
DicomCount(names) == Cardinality({ i \in DOMAIN names : IsDicomName(names[i]) })

\* (mutant: the list is left in the order found)
SortByFiles_Unsorted(seq) == seq
\* find_small_scan line 79: scans_found.sort(key=lambda x: x['files']), a
\* stable sort
RECURSIVE SortByFiles(_)
SortByFiles(seq) ==
    IF seq = << >> THEN << >>
    ELSE LET n == Len(seq)
             x == seq[n]
             sorted == SortByFiles(SubSeq(seq, 1, n - 1))
             k == Cardinality({ i \in DOMAIN sorted : sorted[i].files <= x.files })
         IN SubSeq(sorted, 1, k) \o <<x>> \o SubSeq(sorted, k + 1, n - 1)

\* (mutant: the browser is launched whatever the search found)
Found_Always(sel) == TRUE
\* test_viewer_full line 115: if not experiment_id or not scan_id: return
Found(sel) == sel.experiment_id # NoId /\ sel.scan_id # NoId

Step == IF phase = "pre" THEN PreSteps(script)[spc] ELSE TrySteps(script)[spc]
Running(op) ==
    /\ prog = "script"
    /\ phase \in {"pre", "try"}
    /\ Step.op = op
Ev(op, arg) == [op |-> op, arg |-> arg]

\* control passes to step i of the current phase; past the last step of
\* the steps before the try the try block is entered (the script ends when
\* it has none), past the last step of the try block the finally block
Goto(i) ==
    IF phase = "pre"
      THEN IF i <= Len(PreSteps(script)) THEN /\ phase' = "pre" /\ spc' = i
           ELSE IF TrySteps(script) # << >> THEN /\ phase' = "try" /\ spc' = 1
           ELSE /\ phase' = "done" /\ spc' = 0
      ELSE IF i <= Len(TrySteps(script)) THEN /\ phase' = "try" /\ spc' = i
           ELSE /\ phase' = "finally" /\ spc' = 0

\* (mutant: exit(1) ends the process at once, as os._exit would)
Leave_ExitSkipsFinally(how) ==
    IF phase = "try" /\ how # "exit1"
      THEN /\ phase' = "finally" /\ spc' = 0 /\ pending' = how
      ELSE /\ phase' = "done" /\ spc' = 0 /\ pending' = how
\* an exception, exit(1) (SystemExit) or a return leaves the script: from
\* inside the try block through the finally block
Leave(how) ==
    IF phase = "try"
      THEN /\ phase' = "finally" /\ spc' = 0 /\ pending' = how
      ELSE /\ phase' = "done" /\ spc' = 0 /\ pending' = how

\* an exception raised by the current step: an inner try/except Exception
\* that encloses the step catches it, otherwise it leaves the script
Raise ==
    IF Step.catch > 0
      THEN /\ Goto(Step.catch) /\ UNCHANGED pending
      ELSE Leave("exception")

InitScript ==
    /\ prog = "script"
    /\ script \in Scripts
    /\ phase = "pre" /\ spc = 1 /\ pending = "none"
    /\ driver = "none" /\ quits = 0 /\ session = "none" /\ nInputs = 0
    /\ iter = 0 /\ events = <<>>
    /\ IF script \in {"find_small_scan", "test_viewer_full"}
         THEN server \in Servers
         ELSE server = NoServer
    /\ NoSearch
    /\ NoPage
    /\ pc = "done"
    /\ disk = [p \in Paths |-> Absent]
    /\ disk0 = disk
    /\ dirExists = FALSE
    /\ args = [dicom_path |-> NoneVal, text |-> "", output_path |-> NoneVal]
    /\ dicom_files = <<>>
    /\ idx = 0
    /\ success_count = 0
    /\ calls = <<>>
    /\ out = <<>>
    /\ writes = <<>>
    /\ last = NoOutcome
    /\ NoMain

\* session = requests.Session()
OpenSession ==
    /\ Running("session")
    /\ session' = "open"
    /\ events' = Append(events, Ev("session", ""))
    /\ Goto(spc + 1)
    /\ UNCHANGED <<prog, burnVars, pageVars, searchVars, script, pending, driver, quits, nInputs, iter>>

\* an exception leaves the script, except where the script catches it and
\* returns (test_viewer_full lines 46-48 and 119-121)
Fail == Leave(IF Step.mode = "return" THEN "return" ELSE "exception")

\* session.post(login_url, ...) and the check of its status code
ApiLogin ==
    /\ Running("api_login")
    /\ \/ \E status \in LoginStatuses :
            /\ reqs' = Append(reqs, Req("login", <<0, 0, 0>>, status))
            /\ events' = Append(events, Ev("api_login", ""))
            /\ IF LoginOk(status)
                 THEN Goto(spc + 1) /\ UNCHANGED pending
                 ELSE Leave(IF Step.mode = "exit" THEN "exit1" ELSE "return")
       \/ /\ reqs' = Append(reqs, Req("login", <<0, 0, 0>>, 0))
          /\ events' = Append(events, Ev("api_login", ""))
          /\ Fail
    /\ UNCHANGED <<prog, burnVars, pageVars, script, driver, quits, session, nInputs, iter,
                   server, loop, cur, scans_found, selected, printed, recommended>>

\* the project listing: find_small_scan lines 27-28 (the status is not
\* looked at: the body of a refusal either is not JSON, and .json() raises,
\* or has no 'ResultSet'), test_viewer_full lines 53-66
ApiStep ==
    /\ Running("api")
    /\ events' = Append(events, Ev("api", Step.arg))
    /\ \/ /\ reqs' = Append(reqs, Req("projects", <<0, 0, 0>>, server.projStatus))
          /\ IF Step.mode = "return"
                  /\ (server.projStatus # 200 \/ ProjectsSeen(server) = 0)
               THEN Leave("return") /\ UNCHANGED loop
               ELSE Goto(spc + 1) /\ loop' = "projects" /\ UNCHANGED pending
       \/ /\ reqs' = Append(reqs, Req("projects", <<0, 0, 0>>, server.projStatus))
          /\ server.projStatus # 200
          /\ Fail /\ UNCHANGED loop
       \/ /\ reqs' = Append(reqs, Req("projects", <<0, 0, 0>>, 0))
          /\ Fail /\ UNCHANGED loop
    /\ UNCHANGED <<prog, burnVars, pageVars, script, driver, quits, session, nInputs, iter,
                   server, cur, scans_found, selected, printed, recommended>>

\* the end of the search: find_small_scan goes on to the report,
\* test_viewer_full to line 115
SearchOver(sel) ==
    /\ loop' = "over"
    /\ IF Step.mode = "return" /\ ~Found(sel)
         THEN Leave("return")
         ELSE Goto(spc + 1) /\ UNCHANGED pending

\* the loop over the projects (find_small_scan lines 34-44, test_viewer_full
\* lines 75-90): the experiment listing of the next project is requested
NextProject ==
    /\ Running("search")
    /\ loop = "projects"
    /\ LET p == cur[1] + 1
       IN IF p > Min(ProjectsSeen(server), ProjectLimit(script))
            THEN /\ SearchOver(selected)
                 /\ UNCHANGED <<reqs, cur>>
            ELSE \/ /\ reqs' = Append(reqs,
                          Req("experiments", <<p, 0, 0>>, ExpListing(server, p).status))
                    /\ cur' = <<p, 0, 0>>
                    /\ loop' = IF ExpListing(server, p).status # 200 THEN "projects"
                               ELSE IF Step.mode = "return" /\ ExpListing(server, p).n = 0
                                 THEN "projects"
                               ELSE "experiments"
                    /\ UNCHANGED <<phase, spc, pending>>
                 \/ /\ reqs' = Append(reqs, Req("experiments", <<p, 0, 0>>, 0))
                    /\ Fail
                    /\ UNCHANGED <<cur, loop>>
    /\ UNCHANGED <<prog, burnVars, pageVars, script, driver, quits, session, nInputs, iter,
                   events, server, scans_found, selected, printed, recommended>>

\* the loop over the experiments of a project (find_small_scan lines 46-56,
\* test_viewer_full lines 93-113): the scan listing of the next experiment
\* is requested; test_viewer_full takes the first scan of a listing that is
\* not empty and leaves the loop, and the loop over the projects too when
\* experiment_id is set
NextExperiment ==
    /\ Running("search")
    /\ loop = "experiments"
    /\ LET p == cur[1]
           e == cur[2] + 1
           r == ScanListing(server, p, e)
       IN IF e > Min(ExpListing(server, p).n, ExpLimit)
            THEN /\ loop' = "projects"
                 /\ UNCHANGED <<reqs, cur, selected, phase, spc, pending>>
            ELSE \/ /\ reqs' = Append(reqs, Req("scans", <<p, e, 0>>, r.status))
                    /\ cur' = <<p, e, 0>>
                    /\ IF Step.mode # "return"
                         THEN /\ loop' = IF r.status = 200 THEN "scans" ELSE "experiments"
                              /\ UNCHANGED <<selected, phase, spc, pending>>
                       ELSE IF r.status = 200 /\ r.n > 0
                         THEN LET sel == [project_id |-> ProjId(server, p),
                                          experiment_id |-> ExpId(server, p, e),
                                          scan_id |-> ScanId(server, p, e, 1)]
                              IN /\ selected' = sel
                                 /\ IF sel.experiment_id # NoId
                                      THEN SearchOver(sel)
                                      ELSE /\ loop' = "projects"
                                           /\ UNCHANGED <<phase, spc, pending>>
                       ELSE UNCHANGED <<loop, selected, phase, spc, pending>>
                 \/ /\ reqs' = Append(reqs, Req("scans", <<p, e, 0>>, 0))
                    /\ Fail
                    /\ UNCHANGED <<cur, loop, selected>>
    /\ UNCHANGED <<prog, burnVars, pageVars, script, driver, quits, session, nInputs, iter,
                   events, server, scans_found, printed, recommended>>

\* find_small_scan lines 58-76: the loop over the scans of an experiment:
\* the file listing of the next scan is requested and the scan is kept when
\* it has DICOM files
NextScan ==
    /\ Running("search")
    /\ loop = "scans"
    /\ LET p == cur[1]
           e == cur[2]
           sc == cur[3] + 1
           r == FilesOf(server, p, e, sc)
       IN IF sc > ScanListing(server, p, e).n
            THEN /\ loop' = "experiments"
                 /\ UNCHANGED <<reqs, cur, scans_found, phase, spc, pending>>
            ELSE \/ /\ reqs' = Append(reqs, Req("files", <<p, e, sc>>, r.status))
                    /\ cur' = <<p, e, sc>>
                    /\ scans_found' =
                         IF r.status = 200 /\ DicomCount(r.names) > 0
                           THEN Append(scans_found,
                                  [project |-> ProjId(server, p),
                                   experiment |-> ExpId(server, p, e),
                                   scan |-> ScanId(server, p, e, sc),
                                   at |-> <<p, e, sc>>,
                                   files |-> DicomCount(r.names)])
                           ELSE scans_found
                    /\ UNCHANGED <<loop, phase, spc, pending>>
                 \/ /\ reqs' = Append(reqs, Req("files", <<p, e, sc>>, 0))
                    /\ Fail
                    /\ UNCHANGED <<cur, loop, scans_found>>
    /\ UNCHANGED <<prog, burnVars, pageVars, script, driver, quits, session, nInputs, iter,
                   events, server, selected, printed, recommended>>

\* find_small_scan lines 78-96: the list is sorted, its first entries are
\* printed and its first entry is recommended
Report ==
    /\ Running("report")
    /\ LET sorted == SortByFiles(scans_found)
       IN /\ scans_found' = sorted
          /\ printed' = SubSeq(sorted, 1, Min(Len(sorted), PrintLimit))
          /\ recommended' = IF sorted # << >> THEN <<sorted[1]>> ELSE << >>
    /\ events' = Append(events, Ev("report", ""))
    /\ Goto(spc + 1)
    /\ UNCHANGED <<prog, burnVars, pageVars, script, pending, driver, quits, session,
                   nInputs, iter, server, reqs, loop, cur, selected>>

\* driver = webdriver.Chrome(...)
CreateDriver ==
    /\ Running("driver")
    /\ \/ /\ driver' = "open"
          /\ events' = Append(events, Ev("driver", ""))
          /\ Goto(spc + 1)
          /\ UNCHANGED pending
       \/ /\ Leave("exception")
          /\ UNCHANGED <<driver, events>>
    /\ UNCHANGED <<prog, burnVars, pageVars, searchVars, script, quits, session, nInputs, iter>>

PlainOps ==
    { "get", "click", "inject", "screenshot", "get_log", "read_body",
      "canvases", "verdict", "sleep" }
\* a step that either works or raises (WebDriverException)
PlainStep ==
    /\ prog = "script"
    /\ phase \in {"pre", "try"}
    /\ Step.op \in PlainOps
    /\ Step.mode = ""
    /\ \/ /\ events' = Append(events, Ev(Step.op, Step.arg))
          /\ Goto(spc + 1)
          /\ UNCHANGED pending
       \/ /\ Raise
          /\ UNCHANGED events
    /\ UNCHANGED <<prog, burnVars, pageVars, searchVars, script, driver, quits, session, nInputs, iter>>

\* test_viewer_headless lines 107-113: the keywords looked for in the page
Keywords == {"MPR Viewer", "Axial", "Sagittal", "Coronal", "slices"}
\* the numbers of <canvas> elements a page may have
CanvasCounts == 0..4
\* test_viewer_headless line 182: len(canvases) >= 3
CanvasesExpected == 3

\* (mutant: the canvases are not counted)
VerdictOf_KeywordsOnly(keys, n) == IF keys # {} THEN "SUCCESS" ELSE "FAILED"
\* test_viewer_headless lines 115-118 and 182-190: viewer_found is set when
\* a keyword is in the page text; the verdict
VerdictOf(keys, n) ==
    IF keys # {} /\ n >= CanvasesExpected THEN "SUCCESS"
    ELSE IF keys # {} THEN "PARTIAL"
    ELSE "FAILED"

\* test_viewer_headless lines 104-118: the page text is read and searched
\* for the keywords
ReadPage ==
    /\ Running("read_body")
    /\ Step.mode = "keywords"
    /\ \/ /\ page_keys' \in SUBSET Keywords
          /\ events' = Append(events, Ev("read_body", ""))
          /\ Goto(spc + 1)
          /\ UNCHANGED pending
       \/ /\ Raise
          /\ UNCHANGED <<events, page_keys>>
    /\ UNCHANGED <<prog, burnVars, searchVars, script, driver, quits, session,
                   nInputs, iter, canvases, verdicts>>

\* test_viewer_headless lines 172-178: the canvas elements are looked up
CountCanvases ==
    /\ Running("canvases")
    /\ Step.mode = "count"
    /\ \/ /\ canvases' \in CanvasCounts
          /\ events' = Append(events, Ev("canvases", ""))
          /\ Goto(spc + 1)
          /\ UNCHANGED pending
       \/ /\ Raise
          /\ UNCHANGED <<events, canvases>>
    /\ UNCHANGED <<prog, burnVars, searchVars, script, driver, quits, session,
                   nInputs, iter, page_keys, verdicts>>

\* test_viewer_headless lines 180-193: the final verdict is printed
PrintVerdict ==
    /\ Running("verdict")
    /\ Step.mode = "keywords_canvases"
    /\ verdicts' = Append(verdicts, VerdictOf(page_keys, canvases))
    /\ events' = Append(events, Ev("verdict", ""))
    /\ Goto(spc + 1)
    /\ UNCHANGED <<prog, burnVars, searchVars, script, pending, driver, quits,
                   session, nInputs, iter, page_keys, canvases>>

\* inputs = driver.find_elements(By.TAG_NAME, 'input') and the check of
\* their number, where the script makes one
FindInputs ==
    /\ Running("inputs")
    /\ \/ \E n \in InputCounts :
            /\ nInputs' = n
            /\ IF n < ExpectedInputs /\ Step.mode = "exit"
                 THEN /\ events' = events \o <<Ev("inputs", ""), Ev("screenshot", "error")>>
                      /\ Leave("exit1")
               ELSE IF n < ExpectedInputs /\ Step.mode = "skip"
                 THEN /\ events' = Append(events, Ev("inputs", ""))
                      /\ Goto(Step.to)
                      /\ UNCHANGED pending
               ELSE /\ events' = Append(events, Ev("inputs", ""))
                    /\ Goto(spc + 1)
                    /\ UNCHANGED pending
       \/ /\ Raise
          /\ UNCHANGED <<events, nInputs>>
    /\ UNCHANGED <<prog, burnVars, pageVars, searchVars, script, driver, quits, session, iter>>

\* inputs[1] and inputs[2] are filled: an IndexError when the page has
\* fewer than three
FillForm ==
    /\ Running("fill")
    /\ \/ /\ nInputs >= ExpectedInputs
          /\ events' = Append(events, Ev("fill", ""))
          /\ Goto(spc + 1)
          /\ UNCHANGED pending
       \/ /\ Raise
          /\ UNCHANGED events
    /\ UNCHANGED <<prog, burnVars, pageVars, searchVars, script, driver, quits, session, nInputs, iter>>

\* the page is read after the login attempt
LoginCheck ==
    /\ Running("login_check")
    /\ \/ \E signIn \in BOOLEAN :
            IF signIn /\ Step.mode = "exit"
              THEN /\ events' = events \o <<Ev("login_check", "failed"),
                                            Ev("screenshot", "error")>>
                   /\ Leave("exit1")
            ELSE IF signIn /\ Step.mode = "input_exit"
              THEN /\ events' = Append(events, Ev("login_check", "failed"))
                   /\ phase' = "input"
                   /\ UNCHANGED <<spc, pending>>
            ELSE IF signIn /\ Step.mode = "branch"
              THEN /\ events' = events \o <<Ev("login_check", "failed"),
                                            Ev("get_log", "")>>
                   /\ Goto(Step.to)
                   /\ UNCHANGED pending
            ELSE /\ events' = Append(events,
                       Ev("login_check", IF signIn THEN "failed" ELSE "ok"))
                 /\ Goto(spc + 1)
                 /\ UNCHANGED pending
       \/ /\ Raise
          /\ UNCHANGED events
    /\ UNCHANGED <<prog, burnVars, pageVars, searchVars, script, driver, quits, session, nInputs, iter>>

\* test_viewer_visible lines 58-59: input("Press Enter ...") waits for the
\* user, then exit(1); a closed standard input raises EOFError
UserInput ==
    /\ prog = "script"
    /\ phase = "input"
    /\ \/ /\ pending' = "exit1"
       \/ /\ pending' = "exception"
    /\ phase' = "finally"
    /\ spc' = 0
    /\ UNCHANGED <<prog, burnVars, pageVars, searchVars, script, driver, quits, session, nInputs,
                   iter, events>>

\* one iteration of a monitoring loop (for i in range(n))
Monitor ==
    /\ Running("monitor")
    /\ \/ \E obs \in PageObs :
            /\ iter' = iter + 1
            /\ IF Breaks(Step.mode, obs) \/ iter + 1 >= Step.to
                 THEN /\ Goto(spc + 1)
                      /\ events' = Append(events, Ev("monitor", obs))
                 ELSE UNCHANGED <<phase, spc, events>>
            /\ UNCHANGED pending
       \/ /\ Raise
          /\ UNCHANGED <<events, iter>>
    /\ UNCHANGED <<prog, burnVars, pageVars, searchVars, script, driver, quits, session, nInputs>>

\* finally: driver.quit(); then whatever was leaving the script leaves it
Quit ==
    /\ prog = "script"
    /\ phase = "finally"
    /\ quits' = quits + 1
    /\ driver' = "quit"
    /\ events' = Append(events, Ev("quit", ""))
    /\ phase' = "done"
    /\ UNCHANGED <<prog, burnVars, pageVars, searchVars, script, spc, pending, session, nInputs, iter>>

ScriptNext ==
    \/ OpenSession \/ ApiLogin \/ ApiStep \/ NextProject \/ NextExperiment
    \/ NextScan \/ Report \/ CreateDriver \/ PlainStep \/ ReadPage
    \/ CountCanvases \/ PrintVerdict
    \/ FindInputs \/ FillForm \/ LoginCheck \/ UserInput \/ Monitor \/ Quit

Init == InitBatch \/ InitMain \/ InitScript
Next == Main \/ ListDirectory \/ ProcessFile \/ Summary \/ ScriptNext
Spec == Init /\ [][Next]_vars

(***************************************************************************)
(* Properties of process_directory (specification Spec).                   *)
(***************************************************************************)
BatchDone == prog = "batch" /\ pc = "done"
Failing == { i \in DOMAIN calls : calls[i].ret \in {"raise", "False"} }

\* C1: in process_directory, whichever files make burn_text_into_dicom
\* raise, every file of the list is passed to it exactly once, in order; an
\* exception is reported and the loop goes on; the run is never anywhere
\* but before the listing, in the loop with files left or the summary due,
\* or past the summary line.
C1_EveryFileProcessedOnce ==
    prog = "batch" =>
      /\ pc \in {"start", "loop", "done"}
      /\ pc = "loop" => (Len(calls) = idx /\ idx <= Len(dicom_files))
      /\ (pc = "done" /\ dicom_files # <<>>) =>
           /\ Len(calls) = Len(dicom_files)
           /\ \A i \in DOMAIN dicom_files :
                /\ calls[i].path = dicom_files[i]
                /\ Cardinality({j \in DOMAIN calls :
                                  calls[j].path = dicom_files[i]}) = 1
                /\ calls[i].ret = "raise" =>
                     Msg("error_processing", dicom_files[i]) \in Range(out)
           /\ out[Len(out)].k = "summary"
C1_Witness ==
    /\ BatchDone
    /\ \E i, j \in DOMAIN calls :
          i < j /\ calls[i].ret = "raise" /\ calls[j].ret = "True"

\* C2 (as claimed): over N matching files of which K fail (the call raises,
\* also while saving, or returns False) the summary reports N-K successes
\* and every failing file has the content it had before the batch.
C2_FailuresCountedAndUntouched ==
    (BatchDone /\ dicom_files # <<>>) =>
      /\ out[Len(out)] =
           MsgN("summary", <<Len(dicom_files) - Cardinality(Failing),
                             Len(dicom_files)>>)
      /\ \A i \in Failing : disk[calls[i].path] = disk0[calls[i].path]

\* C4: a directory that is empty or holds no *.dcm file: zero files are
\* reported found, burn_text_into_dicom is never called and nothing is
\* written; nothing is written either when the directory does not exist.
C4_NoMatchNoWork ==
    (BatchDone /\ \A p \in Paths : disk0[p].tag # "absent" => p.e # "dcm") =>
      /\ calls = <<>>
      /\ writes = <<>>
      /\ disk = disk0
      /\ dirExists => out = <<MsgN("no_dcm_files_found", <<>>)>>
C4_Witness ==
    /\ BatchDone
    /\ dirExists
    /\ \E p \in OtherFiles : disk0[p].tag # "absent"
    /\ \A p \in DcmFiles : disk0[p].tag = "absent"
    /\ out = <<MsgN("no_dcm_files_found", <<>>)>>

(***************************************************************************)
(* Properties of burn_text_into_dicom (specification SpecBurn).            *)
(***************************************************************************)
BurnDone == prog = "burn" /\ pc = "done"
Input == disk0[InPath]
\* the call got as far as the pixel array (line 33)
GotPixels ==
    /\ Input.tag = "dicom" /\ Input.hasPixel /\ Input.decodable
    /\ Input.data # <<>>
\* the layouts the tool supports: 2-D, and 3-D with three channels
Supported(shape) == Len(shape) = 2 \/ (Len(shape) = 3 /\ shape[3] = 3)

\* C3 (as claimed): only 2-D buffers and 3-D buffers with three channels
\* are rasterised and written; for any other shape the call reports the
\* shape as unsupported, returns False and leaves the file untouched.
C3_UnsupportedShapeRejected ==
    (BurnDone /\ GotPixels /\ ~Supported(Input.shape)) =>
      /\ last.ret = "False"
      /\ out = <<Msg("skip_unsupported_shape", InPath)>>
      /\ writes = <<>>
      /\ disk = disk0

\* C5: a file without pixel data: the skip is reported, the call returns
\* False without raising, and nothing is written to either path.
C5_NoPixelDataSkipped ==
    (BurnDone /\ Input.tag = "dicom" /\ ~Input.hasPixel) =>
      /\ last.ret = "False"
      /\ out = <<Msg("skip_no_pixel_data", InPath)>>
      /\ writes = <<>>
      /\ disk = disk0
C5_Witness ==
    /\ BurnDone /\ Input.tag = "dicom" /\ ~Input.hasPixel
    /\ args.output_path = OutPath
    /\ last.ret = "False"

\* pixel (row, column), from 0, of the i-th sample of a 2-D buffer
RowCol(i, w) == <<(i - 1) \div w, (i - 1) % w>>
\* the text overlay region: at or beyond (10, 10)
InOverlay(rc) == rc[1] >= 10 /\ rc[2] >= 10

\* C6: a grayscale (2-D) buffer whose maximum is at most 255, negative
\* samples included: every written pixel outside the text overlay region
\* equals the input sample modulo 256.
C6_GrayscaleTruncated ==
    (BurnDone /\ GotPixels /\ last.ret = "True" /\ Len(Input.shape) = 2
       /\ \A i \in DOMAIN Input.data : Input.data[i] <= 255) =>
      /\ Len(writes) = 1
      /\ LET written == writes[1].content.data
         IN /\ DOMAIN written = DOMAIN Input.data
            /\ \A i \in DOMAIN written :
                 ~InOverlay(RowCol(i, Input.shape[2])) =>
                    written[i] = Input.data[i] % 256
C6_Witness ==
    /\ BurnDone /\ GotPixels /\ last.ret = "True" /\ Len(Input.shape) = 2
    /\ \A i \in DOMAIN Input.data : Input.data[i] <= 255
    /\ \E i \in DOMAIN Input.data : Input.data[i] < 0
    /\ \E i \in DOMAIN Input.data :
          /\ InOverlay(RowCol(i, Input.shape[2]))
          /\ writes[1].content.data[i] # Input.data[i] % 256

\* C7 (as claimed): a buffer whose maximum exceeds 255: every normalised
\* value lies in [0, 255], the minimum maps to 0, the maximum to 255, and
\* the mapping preserves order.
C7_RescaleMonotone ==
    (BurnDone /\ GotPixels /\ \E i \in DOMAIN Input.data : Input.data[i] > 255) =>
      /\ DOMAIN last.norm = DOMAIN Input.data
      /\ \A i \in DOMAIN Input.data :
           /\ last.norm[i] \in 0..255
           /\ Input.data[i] = SetMin(Range(Input.data)) => last.norm[i] = 0
           /\ Input.data[i] = SetMax(Range(Input.data)) => last.norm[i] = 255
      /\ \A i, j \in 1..(IF Len(Input.data) < PatLen THEN Len(Input.data) ELSE PatLen) :
           Input.data[i] <= Input.data[j] => last.norm[i] <= last.norm[j]

ScriptDone == prog = "script" /\ phase = "done"

\* C9: once the browser driver has been created, every way out of a
\* script (normal completion, an exception raised by a step, exit(1) on a
\* failed login or a missing form) has executed driver.quit() exactly
\* once, and quit is never executed a second time.
C9_DriverQuitOnce ==
    /\ quits <= 1
    /\ (ScriptDone /\ driver # "none") => (quits = 1 /\ driver = "quit")
    /\ (prog = "script" /\ quits = 1) => ScriptDone
C9_Witness ==
    /\ ScriptDone
    /\ pending = "exit1"
    /\ driver = "quit"
    /\ quits = 1
    /\ \E i \in DOMAIN events : events[i].op = "driver"

\* C10 (as claimed): a script that opened an HTTP session has closed it
\* on every way out, including the login-failure exit and the early
\* returns when nothing is found.
C10_SessionReleased ==
    (ScriptDone /\ session # "none") => session = "closed"

\* C11 (as claimed): in the scripts that log in through the form and look
\* at the outcome, once the page still shows the sign-in form after the
\* login attempt the script never loads the viewer URL and never reports
\* a viewer verdict.
C11_FailedLoginAborts ==
    (prog = "script"
       /\ script \in {"test_viewer_headless", "test_viewer_robust",
                      "test_viewer_visible", "test_viewer_ui", "test_viewer"}) =>
      \A i, j \in DOMAIN events :
         (i < j /\ events[i] = Ev("login_check", "failed")) =>
            events[j] \notin {Ev("get", "viewer"), Ev("verdict", "")}

\* C12 (as claimed): in the scripts that fill the login form, a page with
\* fewer than the three expected input fields means that no credentials
\* are submitted and the viewer URL is never loaded.
C12_MissingFormAborts ==
    (prog = "script"
       /\ \E k \in DOMAIN TrySteps(script) : TrySteps(script)[k].op = "fill"
       /\ \E i \in DOMAIN events : events[i].op = "inputs"
       /\ nInputs < ExpectedInputs) =>
      \A j \in DOMAIN events :
         events[j] \notin {Ev("click", ""), Ev("get", "viewer")}

ApiScripts == {"find_small_scan", "test_specific_scan", "test_viewer_full"}

\* C13: in the scripts that talk to the archive server the login is the
\* first request sent; when its answer is not status 200 (or there is no
\* answer) it stays the only request, the script is over and no browser
\* was launched; a browser is only ever launched after the login.
C13_LoginFirstAndChecked ==
    (prog = "script" /\ script \in ApiScripts) =>
      /\ reqs # << >> => reqs[1].kind = "login"
      /\ (reqs # << >> /\ reqs[1].status # 200) =>
           /\ Len(reqs) = 1
           /\ ScriptDone
           /\ driver = "none"
           /\ \A i \in DOMAIN events : events[i].op \notin {"api", "driver"}
      /\ driver # "none" => (reqs # << >> /\ reqs[1].status = 200)
C13_Witness ==
    /\ ScriptDone
    /\ script = "find_small_scan"
    /\ reqs = << Req("login", <<0, 0, 0>>, 401) >>
    /\ pending = "exit1"
    /\ driver = "none"

\* C14 (as claimed): whenever burn_text_into_dicom draws, whatever font is
\* available, the font size is max(20, height div 20), and the only
\* samples changed are at or beyond the offset (10, 10) and become 255.
C14_FontSizeAndPlacement ==
    (BurnDone /\ last.img.kind \in {"L", "RGB"}) =>
      /\ last.font.size =
           (IF last.img.h \div 20 > 20 THEN last.img.h \div 20 ELSE 20)
      /\ LET b == Bands(last.img.kind)
         IN \A i \in DOMAIN last.img.px :
              last.img.px[i] # ImageOf(Input.shape, last.norm).px[i] =>
                 /\ InOverlay(<<((i - 1) \div b) \div last.img.w,
                                ((i - 1) \div b) % last.img.w>>)
                 /\ last.img.px[i] = 255

\* C15: in a run from the command line process_directory is called exactly
\* once, with the first argument as the directory when there is one and
\* the default directory otherwise, and with the second argument as the
\* text when there is one and the default text otherwise.
C15_ArgumentsOverrideDefaults ==
    /\ nCalls <= 1
    /\ prog = "main" => (pc = "main" /\ nCalls = 0 /\ calls = << >>)
    /\ nCalls = 1 =>
         /\ prog = "batch"
         /\ directory = (IF Len(sys_argv) >= 2 THEN sys_argv[2] ELSE DefaultDir)
         /\ args.text = (IF Len(sys_argv) >= 3 THEN sys_argv[3] ELSE DefaultText)
         /\ banner = <<directory, args.text>>
    /\ (prog = "batch" /\ sys_argv # << >>) => nCalls = 1
C15_Witness ==
    /\ BatchDone
    /\ nCalls = 1
    /\ Len(sys_argv) = 2
    /\ directory = "/data"
    /\ args.text = DefaultText
    /\ calls # << >>

\* C16 (as claimed): no script ever waits for something outside itself, and
\* the monitoring loops make at most 6 (test_viewer_robust) and 18
\* (test_viewer_visible) checks.
C16_NeverWaits ==
    prog = "script" =>
      /\ phase # "input"
      /\ script = "test_viewer_robust" => iter <= 6
      /\ script = "test_viewer_visible" => iter <= 18

(***************************************************************************)
(* Properties of the searches of find_small_scan and test_viewer_full      *)
(***************************************************************************)
Sent(kind, at) == { i \in DOMAIN reqs : reqs[i].kind = kind /\ reqs[i].at = at }
Reported == \E i \in DOMAIN events : events[i].op = "report"
\* the scans whose file listing was requested, answered with status 200
\* and holds at least one name ending in .dcm, whatever the case
Kept ==
    { reqs[i].at : i \in { j \in DOMAIN reqs :
         /\ reqs[j].kind = "files"
         /\ reqs[j].status = 200
         /\ \E k \in DOMAIN FilesOf(server, reqs[j].at[1], reqs[j].at[2], reqs[j].at[3]).names :
               LET f == FilesOf(server, reqs[j].at[1], reqs[j].at[2], reqs[j].at[3]).names[k]
               IN f.ext \in {"dcm", "DCM", "Dcm"} } }

\* C17: in find_small_scan the list of found scans holds exactly the scans
\* examined whose file listing came with status 200 and has a .dcm file,
\* each once; the report prints them in non-decreasing order of file
\* count, at most 10 of them and those with the fewest files, and
\* recommends a scan with the fewest files of all, or none when the list
\* is empty.
C17_FoundSortedAndRecommended ==
    (prog = "script" /\ script = "find_small_scan") =>
      /\ { scans_found[i].at : i \in DOMAIN scans_found } = Kept
      /\ Len(scans_found) = Cardinality(Kept)
      /\ ~Reported => (printed = << >> /\ recommended = << >>)
      /\ Reported =>
           /\ Len(printed) = Min(Len(scans_found), 10)
           /\ \A i \in DOMAIN printed :
                /\ \E k \in DOMAIN scans_found : scans_found[k] = printed[i]
                /\ i < Len(printed) => printed[i].files <= printed[i + 1].files
                /\ Cardinality({ k \in DOMAIN scans_found :
                                   scans_found[k].files < printed[i].files }) < i
           /\ IF scans_found = << >> THEN recommended = << >>
              ELSE /\ Len(recommended) = 1
                   /\ \E k \in DOMAIN scans_found : scans_found[k] = recommended[1]
                   /\ \A k \in DOMAIN scans_found :
                        recommended[1].files <= scans_found[k].files
C17_Witness ==
    /\ ScriptDone /\ script = "find_small_scan" /\ Reported
    /\ Len(scans_found) > 10
    /\ Len(printed) = 10
    /\ printed[1].files < printed[10].files
    /\ \E i \in DOMAIN reqs : reqs[i].kind = "files" /\ reqs[i].status # 200
    /\ \E i, j \in DOMAIN reqs :
          /\ i < j /\ reqs[i].kind = "files" /\ reqs[j].kind = "files"
          /\ reqs[i].at \in Kept /\ reqs[j].at = recommended[1].at

\* C18: in find_small_scan only the first 15 projects and the first 3
\* experiments of each are examined; when the search is over, every one of
\* them was asked for once, and so was every scan of every experiment
\* whose scan listing came with status 200: a listing refused skips that
\* project, experiment or scan only.
C18_BoundedSearchSkipsOnlyRefused ==
    (prog = "script" /\ script = "find_small_scan") =>
      /\ \A i \in DOMAIN reqs :
           /\ reqs[i].at[1] <= 15 /\ reqs[i].at[2] <= 3
           /\ Cardinality(Sent(reqs[i].kind, reqs[i].at)) = 1
           /\ reqs[i].kind = "scans" =>
                ExpListing(server, reqs[i].at[1]).status = 200
           /\ reqs[i].kind = "files" =>
                ScanListing(server, reqs[i].at[1], reqs[i].at[2]).status = 200
      /\ loop = "over" =>
           \A p \in 1..Min(ProjectsSeen(server), 15) :
              /\ Sent("experiments", <<p, 0, 0>>) # {}
              /\ ExpListing(server, p).status = 200 =>
                   \A e \in 1..Min(ExpListing(server, p).n, 3) :
                      /\ Sent("scans", <<p, e, 0>>) # {}
                      /\ ScanListing(server, p, e).status = 200 =>
                           \A sc \in 1..ScanListing(server, p, e).n :
                              Sent("files", <<p, e, sc>>) # {}
C18_Witness ==
    /\ prog = "script" /\ script = "find_small_scan" /\ loop = "over"
    /\ server.nProj > 15
    /\ \E i, j \in DOMAIN reqs :
          /\ i < j /\ reqs[i].kind = "experiments" /\ reqs[i].status # 200
          /\ reqs[j].kind = "experiments"
    /\ \E i, j \in DOMAIN reqs :
          /\ i < j /\ reqs[i].kind = "scans" /\ reqs[i].status # 200
          /\ reqs[j].kind = "scans" /\ reqs[j].at[1] = reqs[i].at[1]
    /\ \E i, j \in DOMAIN reqs :
          /\ i < j /\ reqs[i].kind = "files" /\ reqs[i].status # 200
          /\ reqs[j].kind = "files" /\ reqs[j].at[1] = reqs[i].at[1]
          /\ reqs[j].at[2] = reqs[i].at[2]

\* the experiments test_viewer_full could take: among the first 10
\* projects and the first 3 experiments of each, those whose scan listing
\* comes with status 200 and is not empty
Candidates ==
    { pe \in (1..Min(ProjectsSeen(server), 10)) \X (1..3) :
        /\ ExpListing(server, pe[1]).status = 200
        /\ pe[2] <= ExpListing(server, pe[1]).n
        /\ ScanListing(server, pe[1], pe[2]).status = 200
        /\ ScanListing(server, pe[1], pe[2]).n > 0 }
Before(a, b) == a[1] < b[1] \/ (a[1] = b[1] /\ a[2] < b[2])
FirstCandidate == CHOOSE a \in Candidates : \A b \in Candidates \ {a} : Before(a, b)

\* C19 (as claimed): when the search of test_viewer_full is over and an
\* experiment could be taken, the first scan of the first such experiment
\* is what was selected, and the scan listing of that experiment is the
\* last request sent.
C19_FirstScanSelectedThenStop ==
    (prog = "script" /\ script = "test_viewer_full" /\ loop = "over"
       /\ Candidates # {}) =>
      LET p == FirstCandidate[1]
          e == FirstCandidate[2]
      IN /\ selected = [project_id |-> ProjId(server, p),
                        experiment_id |-> ExpId(server, p, e),
                        scan_id |-> ScanId(server, p, e, 1)]
         /\ reqs[Len(reqs)] = Req("scans", <<p, e, 0>>, 200)

\* C20: in test_viewer_full a browser is launched only when the login came
\* with status 200, the project listing came with status 200 and at least
\* one project, and an experiment id and a scan id, neither empty, were
\* selected; after an exception in the login or the search (a request
\* without an answer) and on every return there is no browser.
C20_BrowserOnlyAfterSelection ==
    (prog = "script" /\ script = "test_viewer_full") =>
      /\ driver # "none" =>
           /\ Len(reqs) >= 2
           /\ reqs[1] = Req("login", <<0, 0, 0>>, 200)
           /\ reqs[2] = Req("projects", <<0, 0, 0>>, 200)
           /\ server.nProj >= 1
           /\ selected.experiment_id # NoId
           /\ selected.scan_id # NoId
           /\ \A i \in DOMAIN reqs : reqs[i].status # 0
      /\ pending = "return" => (ScriptDone /\ driver = "none" /\ quits = 0)
      /\ (\E i \in DOMAIN events : events[i].op = "driver") => driver # "none"
C20_Witness ==
    /\ ScriptDone /\ script = "test_viewer_full"
    /\ driver = "quit"
    /\ selected.experiment_id # NoId /\ selected.scan_id # NoId
    /\ Len(reqs) > 3

\* the place of a step in the run (0: it was not executed)
At(ev) == IF \E i \in DOMAIN events : events[i] = ev
            THEN CHOOSE i \in DOMAIN events : events[i] = ev
            ELSE 0
Times(ev) == Cardinality({ i \in DOMAIN events : events[i] = ev })

\* C21: in test_specific_scan and test_viewer_full no step of the viewer
\* part is executed twice; the viewer URL is only loaded after the origin
\* was loaded and then the cookie and the two local-storage entries were
\* set, in this order; the screenshot is only taken after the viewer URL
\* was loaded and the console log only read after the screenshot.
C21_InjectBeforeViewer ==
    (prog = "script" /\ script \in {"test_specific_scan", "test_viewer_full"}) =>
      /\ \A i \in DOMAIN events : Times(events[i]) = 1
      /\ At(Ev("get", "viewer")) > 0 =>
           /\ 0 < At(Ev("get", "app"))
           /\ At(Ev("get", "app")) < At(Ev("inject", "cookie"))
           /\ At(Ev("inject", "cookie")) < At(Ev("inject", "JSESSIONID"))
           /\ At(Ev("inject", "JSESSIONID")) < At(Ev("inject", "xnatServerUrl"))
           /\ At(Ev("inject", "xnatServerUrl")) < At(Ev("get", "viewer"))
      /\ At(Ev("screenshot", "")) > 0 =>
           (0 < At(Ev("get", "viewer")) /\ At(Ev("get", "viewer")) < At(Ev("screenshot", "")))
      /\ At(Ev("get_log", "")) > 0 =>
           (0 < At(Ev("screenshot", "")) /\ At(Ev("screenshot", "")) < At(Ev("get_log", "")))
C21_Witness ==
    /\ ScriptDone /\ script = "test_viewer_full" /\ pending = "none"
    /\ At(Ev("get", "viewer")) > 0
    /\ At(Ev("get_log", "")) > At(Ev("screenshot", ""))
    /\ quits = 1

PassedLogin == At(Ev("login_check", "ok")) > 0

C23_DivisorNonZero ==
    (BurnDone /\ GotPixels /\ NeedsRescale(Input.data)) =>
      Wrap(SetMax(Range(Input.data)) - SetMin(Range(Input.data)), Input.dtype) # 0

\* C24 (as claimed): after a successful call the byte length of the pixel
\* data written is what the header of the file written declares: the
\* number of samples of its shape times the bytes per sample of its type.
C24_PixelLengthMatchesHeader ==
    (BurnDone /\ last.ret = "True") =>
      \A i \in DOMAIN writes :
         writes[i].content.nbytes =
           Prod(writes[i].content.shape) * (Width(writes[i].content.dtype) \div 8)

\* C25 (as claimed): find_small_scan never ends with an unhandled error
\* after a listing request that was answered, with status 200 or not: an
\* unhandled error only follows a request that got no answer.
C25_RefusedListingHandled ==
    (prog = "script" /\ script = "find_small_scan" /\ pending = "exception"
       /\ reqs # << >>) =>
      reqs[Len(reqs)].status = 0
====
